---- MODULE Spec2Model ----
(***************************************************************************)
(* Simulasi-Resistansi-Bakteri: the bacterial resistance simulation of     *)
(* src/streamlit_app.py (class BacteriaSimulation and the Streamlit page   *)
(* script that drives it) and src/simulasi.py (class                       *)
(* ImprovedBacteriaSimulation, the tkinter application).                   *)
(*                                                                         *)
(* Numbers.  resistance_rate, reproduction_rate and antibiotic_level are   *)
(* floats in the source; here they are integers in thousandths (0.25 is    *)
(* 250).  A survival chance and a random.random() draw are integers in     *)
(* units of 1/100000.  Ages, ticks and generations are integers as in the  *)
(* source.                                                                 *)
(*                                                                         *)
(* Population.  bacteria_population is a Python list of Bacteria.  It is    *)
(* kept here run-length encoded: a sequence of records, each standing for  *)
(* `count` consecutive list elements with equal fields.  The list order is *)
(* preserved (the stable sort of the overflow capping depends on it).  The *)
(* fields x, y, id and parent_id are not part of the record.               *)
(*                                                                         *)
(* Positions.  x and y influence nothing but the positions of offspring    *)
(* and, in streamlit_app.py, whether a founder is placed.  They are kept   *)
(* apart, in `arena`, for a population of a few organisms on integer       *)
(* coordinates (SpecArena); in the other specifications every founder is   *)
(* placed.                                                                 *)
(***************************************************************************)
EXTENDS Integers, Sequences, FiniteSets, TLC

VARIABLES
    app,                    \* which program runs: "streamlit" or "tkinter"
    bacteria_population,    \* self.bacteria_population (run-length encoded)
    current_tick,           \* self.current_tick
    antibiotic_level,       \* self.antibiotic_level, thousandths
    max_generations,        \* self.max_generations
    current_max_generation, \* self.current_max_generation
    simulation_ended,       \* self.simulation_ended
    population_history,     \* self.population_history
    resistance_history,     \* self.resistance_history (thousandths)
    tick_history,           \* self.tick_history
    generation_history,     \* self.generation_history (streamlit only)
    is_running,             \* st.session_state.is_running / self.is_running
    auto_run,               \* st.session_state.auto_run (streamlit only)
    timers,                 \* tkinter: run_simulation callbacks pending in root.after
    pre_cap,                \* the list built at "Update population", before the capping
    aged_out,               \* organisms dropped by the age check of the last step
    probe,                  \* the last call of a pure method: its inputs and result
    arena                   \* the positions x, y of the organisms (SpecArena)

engine == <<bacteria_population, current_tick, antibiotic_level, max_generations,
            current_max_generation, simulation_ended, population_history,
            resistance_history, tick_history, generation_history, pre_cap, aged_out>>
driver == <<is_running, auto_run, timers>>
vars == <<app, engine, driver, probe, arena>>

(***************************************************************************)
(* Bounds of the exploration.                                              *)
(***************************************************************************)
MaxTick == 15           \* Spec: no step starts at or after this tick
MaxDeepTick == 203      \* SpecDeep: no step starts at or after this tick
MaxTkDeepTick == 1006   \* SpecDeep, tkinter: no step starts at or after this tick
MaxTimers == 2          \* pending tkinter callbacks are not scheduled past this
MaxMixedRun == 10       \* longer runs of equal parents draw one mutation for both children
MaxFounders == 2        \* SpecArena: initialize_population seeds at most this many founders
MaxArena == 6           \* SpecArena: no step leaves more organisms than this
MaxArenaTick == 2       \* SpecArena: no step starts at or after this tick
MaxAttempt == 1         \* SpecArena: the radius search makes the attempts 0..MaxAttempt
MaxBandCount == 3       \* SpecFn: a run of the lists given to get_statistics is this long
MaxOccupied == 2        \* SpecFn: the lists given to find_empty_space_near_parent are this long
LiveWindow == 8         \* SpecLive: every organism survives this long before the first run's max_age
MaxLiveTick == 750      \* SpecLive: no step starts at or after this tick
MaxTypedTick == 4       \* SpecTyped: the ticks the program with typed inputs runs

(***************************************************************************)
(* Program constants.                                                      *)
(***************************************************************************)
PopulationLimit == 800  \* len(self.bacteria_population) > 800
TopResistant == 400     \* self.bacteria_population[:400]
RandomSample == 200     \* min(200, len(...) - 400)
HistoryLimit == 200     \* len(self.tick_history) > 200
HistoryEvery == 5       \* tkinter: self.current_tick % 5 == 0
MinMaxAge == 60
MaxMaxAge == 150
MinReproductionRate == 500
MaxReproductionRate == 4000
MaxResistance == 1000
DefaultAntibiotic == 300
DefaultPopulation == 50
DefaultGenerations == 20
MaxGenerations == 50    \* the upper end of the generation Spinbox
canvas_width == 800     \* streamlit_app.py self.canvas_width
canvas_height == 400    \* streamlit_app.py self.canvas_height
min_bacteria_distance == 8
base_radius == 20       \* find_empty_space_near_parent
RadiusStep == 5         \* radius = base_radius + attempt * 5
PlacementMargin == 15   \* max(15, min(width - 15, ...)) of the offspring positions
FounderMargin == 50     \* random.uniform(50, ...) of the founder positions
LastResortOffset == 10  \* parent_x + random.uniform(-10, 10)
TkCanvasWidth == 900    \* simulasi.py self.canvas_width
TkCanvasHeight == 450   \* simulasi.py self.canvas_height
TkFallbackWidth == 800  \* simulasi.py simulation_step: canvas_width when winfo_width() <= 1
TkFallbackHeight == 400
TkFounderMaxX == 800    \* simulasi.py x=random.uniform(50, 800)
TkFounderMaxY == 400
TkOffspringOffset == 40 \* simulasi.py self.x + random.uniform(-40, 40)
RenderMargin == 10      \* simulasi.py render_bacteria: max(10, min(canvas_width-10, ...))

Max(a, b) == IF a >= b THEN a ELSE b
Min(a, b) == IF a <= b THEN a ELSE b

(***************************************************************************)
(* Run-length encoded lists.                                                *)
(***************************************************************************)
Kind(g) == [g EXCEPT !.count = 0]

\* f[lo] + ... + f[hi], halving the range.
RECURSIVE SumRange(_, _, _)
SumRange(f, lo, hi) ==
    IF lo > hi THEN 0
    ELSE IF lo = hi THEN f[lo]
    ELSE LET mid == (lo + hi) \div 2
         IN  SumRange(f, lo, mid) + SumRange(f, mid + 1, hi)

Sum(f) == SumRange(f, 1, Len(f))

\* len() of the encoded list.
Size(s) == Sum([i \in 1..Len(s) |-> s[i].count])

\* a + b of two canonical encodings.
Join(a, b) ==
    IF a = <<>> THEN b
    ELSE IF b = <<>> THEN a
    ELSE IF Kind(a[Len(a)]) = Kind(b[1])
         THEN SubSeq(a, 1, Len(a) - 1)
              \o <<[b[1] EXCEPT !.count = @ + a[Len(a)].count]>> \o Tail(b)
         ELSE a \o b

\* The canonical encoding of the same list: no empty run, adjacent equal runs merged.
RECURSIVE NormRange(_, _, _)
NormRange(s, lo, hi) ==
    IF lo > hi THEN <<>>
    ELSE IF lo = hi THEN (IF s[lo].count = 0 THEN <<>> ELSE <<s[lo]>>)
    ELSE LET mid == (lo + hi) \div 2
         IN  Join(NormRange(s, lo, mid), NormRange(s, mid + 1, hi))

Norm(s) == NormRange(s, 1, Len(s))

\* How many elements of run i lie within the first k elements of the list.
Within(s, i, k) == Max(0, Min(s[i].count, k - Size(SubSeq(s, 1, i - 1))))

\* s[:k] and s[k:] of the encoded list, k counted in list elements.
Take(s, k) ==
    SelectSeq([i \in 1..Len(s) |-> [s[i] EXCEPT !.count = Within(s, i, k)]],
              LAMBDA g : g.count > 0)

Drop(s, k) ==
    SelectSeq([i \in 1..Len(s) |-> [s[i] EXCEPT !.count = @ - Within(s, i, k)]],
              LAMBDA g : g.count > 0)

\* The concatenation ss[lo] + ... + ss[hi].
RECURSIVE FlattenRange(_, _, _)
FlattenRange(ss, lo, hi) ==
    IF lo > hi THEN <<>>
    ELSE IF lo = hi THEN ss[lo]
    ELSE LET mid == (lo + hi) \div 2
         IN  FlattenRange(ss, lo, mid) \o FlattenRange(ss, mid + 1, hi)

Flatten(ss) == FlattenRange(ss, 1, Len(ss))

SetMax(S) == CHOOSE m \in S : \A x \in S : x <= m

\* s[-n:]
LastN(s, n) == IF Len(s) > n THEN SubSeq(s, Len(s) - n + 1, Len(s)) ELSE s

(***************************************************************************)
(* class Bacteria.                                                         *)
(***************************************************************************)
Bacteria(age, resistance_rate, reproduction_rate, max_age, generation, last_reproduction, count) ==
    [age |-> age, resistance_rate |-> resistance_rate,
     reproduction_rate |-> reproduction_rate, max_age |-> max_age,
     generation |-> generation, last_reproduction |-> last_reproduction,
     count |-> count]

\* A variant: the first branch is taken only when resistance_rate > antibiotic_level.
survival_chance_strict(resistance_rate, level) ==
    IF resistance_rate > level
    THEN Min(100000, 95000 + (resistance_rate - level) * 5)
    ELSE 100000 - Min(95000, (level - resistance_rate) * 80)

\* survival_chance of survive_antibiotic_exposure, in 1/100000.
survival_chance(resistance_rate, level) ==
    IF resistance_rate >= level
    THEN Min(100000, 95000 + (resistance_rate - level) * 5)
    ELSE 100000 - Min(95000, (level - resistance_rate) * 80)

\* random.random() < survival_chance, u the draw in 1/100000 (0 <= u < 100000).
survive_antibiotic_exposure(b, level, u) ==
    u < survival_chance(b.resistance_rate, level)

\* A variant: the rate as a frequency, ten ticks divided by the rate.
reproduction_interval_inverse(reproduction_rate) ==
    Max(1, 10000 \div reproduction_rate)

\* A variant: the rate is not multiplied by 10.
reproduction_interval_unscaled(reproduction_rate) ==
    Max(1, reproduction_rate \div 1000)

reproduction_interval(reproduction_rate) ==
    Max(1, (reproduction_rate * 10) \div 1000)

\* A variant: the interval has to be exceeded.
can_reproduce_strict(b, tick) ==
    (tick - b.last_reproduction) > reproduction_interval(b.reproduction_rate)

can_reproduce(b, tick) ==
    (tick - b.last_reproduction) >= reproduction_interval(b.reproduction_rate)

\* The three mutations of one child; m holds the three random draws.
\* A variant: the mutated resistance is not clamped.
new_resistance_unclamped(parent, m) == parent.resistance_rate + m.resistance

new_resistance(parent, m) ==
    Max(0, Min(MaxResistance, parent.resistance_rate + m.resistance))

\* A variant: the resistance cost is taken off the rate.
new_reproduction_rate_less(parent, m) ==
    Max(MinReproductionRate, Min(MaxReproductionRate,
        parent.reproduction_rate + m.reproduction
            - (new_resistance(parent, m) * 3) \div 10))

new_reproduction_rate(parent, m) ==
    Max(MinReproductionRate, Min(MaxReproductionRate,
        parent.reproduction_rate + m.reproduction
            + (new_resistance(parent, m) * 3) \div 10))

new_max_age(parent, m) ==
    Max(MinMaxAge, Min(MaxMaxAge, parent.max_age + m.age))

\* A variant: the child is of its parent's generation.
child_same_generation(parent, tick, m) ==
    Bacteria(0, new_resistance(parent, m), new_reproduction_rate(parent, m),
             new_max_age(parent, m), parent.generation, tick, 1)

child(parent, tick, m) ==
    Bacteria(0, new_resistance(parent, m), new_reproduction_rate(parent, m),
             new_max_age(parent, m), parent.generation + 1, tick, 1)

\* A variant: one child for every parent.
reproduce_single(parent, tick, m1, m2) ==
    IF ~can_reproduce(parent, tick) THEN <<>>
    ELSE <<[child(parent, tick, m1) EXCEPT !.count = parent.count]>>

\* reproduce(): the list of offspring of every parent of one run; the two children
\* of a parent are drawn with m1 and m2, so the list is c1, c2, c1, c2, ...
reproduce(parent, tick, m1, m2) ==
    IF ~can_reproduce(parent, tick) THEN <<>>
    ELSE LET c1 == child(parent, tick, m1)
             c2 == child(parent, tick, IF parent.count > MaxMixedRun THEN m1 ELSE m2)
         IN  IF c1 = c2 THEN <<[c1 EXCEPT !.count = 2 * parent.count]>>
             ELSE [i \in 1..(2 * parent.count) |-> IF i % 2 = 1 THEN c1 ELSE c2]

\* parent.last_reproduction = current_tick, done by reproduce() on the parent.
after_reproduce(parent, tick) ==
    IF can_reproduce(parent, tick) THEN [parent EXCEPT !.last_reproduction = tick]
    ELSE parent

(***************************************************************************)
(* simulation_step, phase by phase.                                        *)
(***************************************************************************)
\* A variant: the age check removes an organism one tick late.
dies_of_age_late(b) == b.age > b.max_age

dies_of_age(b) == b.age >= b.max_age

\* A variant: the loop does not add to the age.
natural_selection_unaged(s, level, uFirst, uRest) ==
    LET stays(i) ==
            /\ ~dies_of_age(s[i])
            /\ survive_antibiotic_exposure(s[i], level, IF i = 1 THEN uFirst ELSE uRest)
    IN  SelectSeq([i \in 1..Len(s) |->
                      IF stays(i) THEN s[i] ELSE [s[i] EXCEPT !.count = 0]],
                  LAMBDA g : g.count > 0)

\* "Natural selection": every organism ages by one tick, then stays unless it is old
\* or fails the exposure; the run at index 1 draws uFirst, the others uRest.
natural_selection(s, level, uFirst, uRest) ==
    LET aged == [i \in 1..Len(s) |-> [s[i] EXCEPT !.age = @ + 1]]
        stays(i) ==
            /\ ~dies_of_age(aged[i])
            /\ survive_antibiotic_exposure(aged[i], level,
                                           IF i = 1 THEN uFirst ELSE uRest)
    IN  SelectSeq([i \in 1..Len(s) |->
                      IF stays(i) THEN aged[i] ELSE [aged[i] EXCEPT !.count = 0]],
                  LAMBDA g : g.count > 0)

count_aged_out(s) ==
    Sum([i \in 1..Len(s) |->
            IF dies_of_age([s[i] EXCEPT !.age = @ + 1]) THEN s[i].count ELSE 0])

\* "Reproduction" and "Update population": surviving_bacteria + new_bacteria.
update_population(surviving, tick, m1, m2) ==
    [i \in 1..Len(surviving) |-> after_reproduce(surviving[i], tick)]
    \o Flatten([i \in 1..Len(surviving) |-> reproduce(surviving[i], tick, m1, m2)])

\* A variant: the sort without reverse=True.
SetMin(S) == CHOOSE m \in S : \A x \in S : m <= x
RECURSIVE sort_ascending(_, _)
sort_ascending(s, rates) ==
    IF rates = {} THEN <<>>
    ELSE LET v == SetMin(rates)
         IN  SelectSeq(s, LAMBDA g : g.resistance_rate = v)
             \o sort_ascending(s, rates \ {v})

\* list.sort(key=lambda b: b.resistance_rate, reverse=True): stable.
RECURSIVE sort_by_resistance(_, _)
sort_by_resistance(s, rates) ==
    IF rates = {} THEN <<>>
    ELSE LET v == SetMax(rates)
         IN  SelectSeq(s, LAMBDA g : g.resistance_rate = v)
             \o sort_by_resistance(s, rates \ {v})

\* random.sample(rest, k): the k elements drawn, here the first or the last k of rest.
random_sample(rest, k, pick) ==
    IF pick = "head" THEN Take(rest, k) ELSE Drop(rest, Size(rest) - k)

\* A variant: the sample size taken off the whole list, not off the remainder.
sample_size_whole(n) == Max(RandomSample, n - RandomSample)

\* min(200, len(self.bacteria_population) - 400): the k given to random.sample.
sample_size(n) == Min(RandomSample, n - TopResistant)

\* A variant: the sample is as large as the remainder allows.
limit_population_oversample(s, pick) ==
    IF Size(s) > PopulationLimit
    THEN LET sorted == sort_by_resistance(s, {s[i].resistance_rate : i \in 1..Len(s)})
         IN  Take(sorted, TopResistant)
             \o random_sample(Drop(sorted, TopResistant), Size(s) - TopResistant, pick)
    ELSE s

\* "Limit population for performance".
limit_population(s, pick) ==
    IF Size(s) > PopulationLimit
    THEN LET sorted == sort_by_resistance(s, {s[i].resistance_rate : i \in 1..Len(s)})
             top_resistant == Take(sorted, TopResistant)
         IN  top_resistant
             \o random_sample(Drop(sorted, TopResistant), sample_size(Size(s)), pick)
    ELSE s

sum_resistance(s) == Sum([i \in 1..Len(s) |-> s[i].resistance_rate * s[i].count])

avg_resistance(s) == IF s # <<>> THEN sum_resistance(s) \div Size(s) ELSE 0

max_generation(s) == SetMax({s[i].generation : i \in 1..Len(s)})

\* A variant: the cut keeps the oldest samples.
limit_history_oldest(h, ticks) ==
    IF Len(ticks) > HistoryLimit THEN SubSeq(h, 1, HistoryLimit) ELSE h

\* A variant: the cut leaves one sample too many.
limit_history_long(h, ticks) ==
    IF Len(ticks) > HistoryLimit THEN LastN(h, HistoryLimit + 1) ELSE h

\* "Limit history for performance": every history is cut when tick_history is long.
limit_history(h, ticks) == IF Len(ticks) > HistoryLimit THEN LastN(h, HistoryLimit) ELSE h

(***************************************************************************)
(* Statistics.                                                             *)
(***************************************************************************)
\* Bacteria.is_very_old: age / max_age > 0.8
is_very_old(b) == 10 * b.age > 8 * b.max_age

\* A variant: the medium band without its two ends.
resistance_bands_open(s) ==
    LET high_res == Size(SelectSeq(s, LAMBDA b : b.resistance_rate > 700))
        med_res == Size(SelectSeq(s, LAMBDA b : 300 < b.resistance_rate /\ b.resistance_rate < 700))
    IN  [high |-> high_res, medium |-> med_res, low |-> Size(s) - high_res - med_res]

\* high_res, med_res, low_res: sum(1 for ... if ...), the same three lines in
\* get_statistics and in
\* update_statistics.
resistance_bands(s) ==
    LET high_res == Size(SelectSeq(s, LAMBDA b : b.resistance_rate > 700))
        med_res == Size(SelectSeq(s, LAMBDA b : 300 <= b.resistance_rate /\ b.resistance_rate <= 700))
    IN  [high |-> high_res, medium |-> med_res, low |-> Size(s) - high_res - med_res]

\* np.mean of one attribute, in the attribute's unit.
mean(s, attribute) == Sum([i \in 1..Len(s) |-> s[i][attribute] * s[i].count]) \div Size(s)

\* (min(resistances), max(resistances))
resistance_range(s) ==
    <<SetMin({s[i].resistance_rate : i \in 1..Len(s)}),
      SetMax({s[i].resistance_rate : i \in 1..Len(s)})>>

\* A variant without the test for the empty list: the means divide by at least one and
\* the range is folded from the ends of the resistance scale.
get_statistics_unguarded(s) ==
    [population |-> Size(s),
     avg_resistance |-> sum_resistance(s) \div Max(1, Size(s)),
     avg_reproduction |->
         Sum([i \in 1..Len(s) |-> s[i].reproduction_rate * s[i].count]) \div Max(1, Size(s)),
     resistance_range |->
         <<SetMin({s[i].resistance_rate : i \in 1..Len(s)} \cup {MaxResistance}),
           SetMax({s[i].resistance_rate : i \in 1..Len(s)} \cup {0})>>,
     high_resistance_count |-> resistance_bands(s).high,
     medium_resistance_count |-> resistance_bands(s).medium,
     low_resistance_count |-> resistance_bands(s).low,
     very_old_count |-> Size(SelectSeq(s, is_very_old)),
     avg_age |-> Sum([i \in 1..Len(s) |-> s[i].age * s[i].count]) \div Max(1, Size(s))]

\* BacteriaSimulation.get_statistics: the dictionary it returns.
get_statistics(s) ==
    IF s = <<>>
    THEN [population |-> 0, avg_resistance |-> 0, avg_reproduction |-> 0,
          resistance_range |-> <<0, 0>>, high_resistance_count |-> 0,
          medium_resistance_count |-> 0, low_resistance_count |-> 0,
          very_old_count |-> 0, avg_age |-> 0]
    ELSE [population |-> Size(s),
          avg_resistance |-> mean(s, "resistance_rate"),
          avg_reproduction |-> mean(s, "reproduction_rate"),
          resistance_range |-> resistance_range(s),
          high_resistance_count |-> resistance_bands(s).high,
          medium_resistance_count |-> resistance_bands(s).medium,
          low_resistance_count |-> resistance_bands(s).low,
          very_old_count |-> Size(SelectSeq(s, is_very_old)),
          avg_age |-> mean(s, "age")]

\* ImprovedBacteriaSimulation.update_statistics: the numbers it writes to its labels.
\* The info label shows the three bands and the total, or a legend when the list is
\* empty.
update_statistics(s) ==
    [population |-> Size(s),
     avg_resistance |-> IF s # <<>> THEN mean(s, "resistance_rate") ELSE 0,
     avg_reproduction |-> IF s # <<>> THEN mean(s, "reproduction_rate") ELSE 0,
     resistance_range |-> IF s # <<>> THEN resistance_range(s) ELSE <<0, 0>>,
     info |-> IF Size(s) > 0
              THEN <<resistance_bands(s).high, resistance_bands(s).medium,
                     resistance_bands(s).low, Size(s)>>
              ELSE <<>>]

(***************************************************************************)
(* The random draws and the inputs the exploration takes.                  *)
(***************************************************************************)
\* random.random() in 1/100000: 0 is a draw below every chance, 50000 a middle one
\* and 99999 one above every chance < 1.
\* random.uniform(-0.15, 0.15), random.uniform(-0.075, 0.075), random.randint(-20, 20)
MutationUp == [resistance |-> 150, reproduction |-> 75, age |-> 20]
MutationNone == [resistance |-> 0, reproduction |-> 0, age |-> 0]
MutationDown == [resistance |-> -150, reproduction |-> -75, age |-> -20]

\* The draws of the steps: u = <<uFirst, uRest>>, the random.random() of the first
\* run of the list and of the other runs; m = <<m1, m2>>, the mutations of the first
\* and of the second child of every parent; pick, the elements random.sample takes.
Draws ==
    [u |-> {<<0, 0>>, <<50000, 50000>>, <<99999, 99999>>},
     m |-> {<<MutationUp, MutationUp>>, <<MutationDown, MutationDown>>,
            <<MutationUp, MutationDown>>},
     pick |-> {"head", "tail"}]
DeepDraws ==
    [u |-> {<<0, 99999>>},
     m |-> {<<MutationDown, MutationDown>>},
     pick |-> {"head"}]
TkDeepDraws ==
    [u |-> {<<0, 0>>},
     m |-> {<<MutationUp, MutationUp>>},
     pick |-> {"head"}]

\* Founders as initialize_population draws them: age randint(0, 15), resistance
\* uniform(0.05, 0.25), reproduction uniform(0.8, 1.5), max_age randint(85, 120).
FounderKinds ==
    {Bacteria(0, 50, 800, 85, 0, 0, 1), Bacteria(15, 250, 1500, 120, 0, 0, 1)}
PopulationSizes == {10, 200}        \* the slider / the spinbox: 10..200
GenerationTargets == {5, 20}        \* the slider / the spinbox: 5..50
AntibioticLevels == {300, 1000}  \* the slider: 0.0..1.0

(***************************************************************************)
(* BacteriaSimulation / ImprovedBacteriaSimulation methods.                *)
(***************************************************************************)
\* initialize_population: the first half of the founders drawn as kindA, the rest
\* as kindB.
\* A variant: current_max_generation is left as it was.
initialize_population_stale(n, kindA, kindB) ==
    LET founders == Norm(<<[kindA EXCEPT !.count = n \div 2],
                           [kindB EXCEPT !.count = n - (n \div 2)]>>)
    IN  /\ bacteria_population' = founders
        /\ current_tick' = 0
        /\ current_max_generation' = current_max_generation
        /\ simulation_ended' = FALSE
        /\ population_history' = <<>>
        /\ resistance_history' = <<>>
        /\ tick_history' = <<>>
        /\ generation_history' = <<>>
        /\ pre_cap' = founders
        /\ aged_out' = 0

initialize_population(n, kindA, kindB) ==
    LET founders == Norm(<<[kindA EXCEPT !.count = n \div 2],
                           [kindB EXCEPT !.count = n - (n \div 2)]>>)
    IN  /\ bacteria_population' = founders
        /\ current_tick' = 0
        /\ current_max_generation' = 0
        /\ simulation_ended' = FALSE
        /\ population_history' = <<>>
        /\ resistance_history' = <<>>
        /\ tick_history' = <<>>
        /\ generation_history' = <<>>
        /\ pre_cap' = founders
        /\ aged_out' = 0

\* simulation_step: everything it assigns except antibiotic_level.  A draw is
\* taken only where the step uses it.
simulation_step(level, draws) ==
    \E u \in (IF bacteria_population = <<>> THEN {<<0, 0>>} ELSE draws.u) :
    LET tick == current_tick + 1
        surviving == natural_selection(bacteria_population, level, u[1], u[2])
        parents == \E i \in 1..Len(surviving) : can_reproduce(surviving[i], tick)
    IN
    \E m \in (IF parents THEN draws.m ELSE {<<MutationNone, MutationNone>>}) :
    LET combined == Norm(update_population(surviving, tick, m[1], m[2]))
    IN
    \E pick \in (IF Size(combined) > PopulationLimit THEN draws.pick ELSE {"head"}) :
    LET limited == Norm(limit_population(combined, pick))
        gen == IF limited # <<>> THEN max_generation(limited) ELSE current_max_generation
        save == (app = "streamlit") \/ (tick % HistoryEvery = 0)
        ticks == IF save THEN Append(tick_history, tick) ELSE tick_history
    IN  /\ current_tick' = tick
        /\ aged_out' = count_aged_out(bacteria_population)
        /\ pre_cap' = combined
        /\ bacteria_population' = limited
        /\ current_max_generation' = gen
        /\ tick_history' = limit_history(ticks, ticks)
        /\ population_history' =
               IF save THEN limit_history(Append(population_history, Size(limited)), ticks)
               ELSE population_history
        /\ resistance_history' =
               IF save THEN limit_history(Append(resistance_history, avg_resistance(limited)), ticks)
               ELSE resistance_history
        /\ generation_history' =
               IF app = "streamlit"
               THEN limit_history(Append(generation_history, gen), ticks)
               ELSE generation_history

(***************************************************************************)
(* streamlit_app.py: one action is one run of the page script.  The sidebar *)
(* first copies the sliders into the simulation (level, gen), then the     *)
(* pressed widget is handled, then the "Auto-run logic" at the end of the  *)
(* script runs unless the handler called st.rerun().                        *)
(***************************************************************************)
\* Lines 632-643, with the flags the widgets of this run left (run, auto).
auto_run_logic(level, gen, run, auto, d, limit) ==
    /\ antibiotic_level' = level
    /\ max_generations' = gen
    /\ timers' = timers
    /\ IF auto /\ ~simulation_ended
       THEN IF current_max_generation < gen /\ bacteria_population # <<>>
            THEN /\ current_tick < limit
                 /\ simulation_step(level, d)
                 /\ simulation_ended' = simulation_ended
                 /\ is_running' = run
                 /\ auto_run' = auto
            ELSE /\ simulation_ended' = TRUE
                 /\ is_running' = FALSE
                 /\ auto_run' = FALSE
                 /\ UNCHANGED <<bacteria_population, current_tick, current_max_generation,
                                population_history, resistance_history, tick_history,
                                generation_history, pre_cap, aged_out>>
       ELSE /\ is_running' = run
            /\ auto_run' = auto
            /\ UNCHANGED <<bacteria_population, current_tick, current_max_generation,
                           simulation_ended, population_history, resistance_history,
                           tick_history, generation_history, pre_cap, aged_out>>

\* A rerun with no widget pressed (st.rerun(), or any other interaction).
StRerun(d, limit) ==
    /\ app = "streamlit"
    /\ auto_run_logic(antibiotic_level, max_generations, is_running, auto_run, d, limit)
    /\ UNCHANGED <<app, probe, arena>>

\* The user moves the antibiotic or the generation slider.
StSliders(level, gen, d, limit) ==
    /\ app = "streamlit"
    /\ <<level, gen>> # <<antibiotic_level, max_generations>>
    /\ auto_run_logic(level, gen, is_running, auto_run, d, limit)
    /\ UNCHANGED <<app, probe, arena>>

\* "Reset".
StReset(n, kindA, kindB) ==
    /\ app = "streamlit"
    /\ initialize_population(n, kindA, kindB)
    /\ is_running' = FALSE
    /\ auto_run' = FALSE
    /\ UNCHANGED <<app, probe, arena, antibiotic_level, max_generations, timers>>

\* "Start/Stop".
StStartStop(d, limit) ==
    /\ app = "streamlit"
    /\ auto_run_logic(antibiotic_level, max_generations, ~is_running, ~is_running, d, limit)
    /\ UNCHANGED <<app, probe, arena>>

\* The "Auto-run" checkbox.
StAutoRun(d, limit) ==
    /\ app = "streamlit"
    /\ auto_run_logic(antibiotic_level, max_generations, is_running, ~auto_run, d, limit)
    /\ UNCHANGED <<app, probe, arena>>

\* A variant: the button steps without looking at simulation_ended.
StManualStepAlways(d, limit) ==
    /\ app = "streamlit"
    /\ current_tick < limit
    /\ simulation_step(antibiotic_level, d)
    /\ UNCHANGED <<app, probe, arena, antibiotic_level, max_generations, simulation_ended,
                   is_running, auto_run, timers>>

\* "Step Manual".
StManualStep(d, limit) ==
    /\ app = "streamlit"
    /\ ~simulation_ended
    /\ current_tick < limit
    /\ simulation_step(antibiotic_level, d)
    /\ UNCHANGED <<app, probe, arena, antibiotic_level, max_generations, simulation_ended,
                   is_running, auto_run, timers>>

(***************************************************************************)
(* simulasi.py: one action is one tkinter callback.                        *)
(***************************************************************************)
\* run_simulation, entered with is_running = run and t callbacks pending; level is
\* what antibiotic_var.get() returns in simulation_step.
run_simulation(run, t, level, d, limit) ==
    IF ~run \/ simulation_ended
    THEN /\ is_running' = run
         /\ timers' = t
         /\ UNCHANGED engine
    ELSE /\ current_tick < limit
         /\ simulation_step(level, d)
         /\ antibiotic_level' = level
         /\ max_generations' = max_generations
         /\ IF current_max_generation' >= max_generations
            THEN /\ simulation_ended' = TRUE
                 /\ is_running' = FALSE
                 /\ timers' = t
            ELSE IF bacteria_population' = <<>>
            THEN /\ simulation_ended' = TRUE
                 /\ is_running' = FALSE
                 /\ timers' = t
            ELSE /\ simulation_ended' = simulation_ended
                 /\ is_running' = run
                 /\ t < MaxTimers
                 /\ timers' = t + 1

\* The Start/Pause button: toggle_simulation.
TkToggle(level, d, limit) ==
    /\ app = "tkinter"
    /\ run_simulation(~is_running, timers, level, d, limit)
    /\ UNCHANGED <<app, probe, arena, auto_run>>

\* A callback scheduled by root.after fires.
TkTimer(level, d, limit) ==
    /\ app = "tkinter"
    /\ timers > 0
    /\ run_simulation(is_running, timers - 1, level, d, limit)
    /\ UNCHANGED <<app, probe, arena, auto_run>>

\* The Reset button: reset_population, with pop_var = n and gen_var = gen.
TkReset(n, gen, kindA, kindB) ==
    /\ app = "tkinter"
    /\ max_generations' = gen
    /\ is_running' = FALSE
    /\ initialize_population(n, kindA, kindB)
    /\ UNCHANGED <<app, probe, arena, antibiotic_level, auto_run, timers>>

(***************************************************************************)
(* Positions.  arena.organisms holds the positions of the live collection  *)
(* in list order, arena.requested the population size the last seeding    *)
(* was asked for, arena.before the list at the start of the last step and  *)
(* arena.batch the offspring that step placed, in the order of placement.  *)
(* Which organism survives or reproduces is decided by its traits, which   *)
(* the arena does not hold: a step takes any survivors and any parents.    *)
(***************************************************************************)
Point(x, y) == [x |-> x, y |-> y]

\* (bacteria.x - x) ** 2 + (bacteria.y - y) ** 2
distance_squared(p, q) == (p.x - q.x) * (p.x - q.x) + (p.y - q.y) * (p.y - q.y)

\* is_position_valid: no organism of `existing` is nearer than min_bacteria_distance.
is_position_valid(p, existing) ==
    \A i \in 1..Len(existing) :
        distance_squared(existing[i], p) >= min_bacteria_distance * min_bacteria_distance

\* max(margin, min(width - margin, x)), max(margin, min(height - margin, y))
clamp_position(p, width, height, margin) ==
    Point(Max(margin, Min(width - margin, p.x)), Max(margin, Min(height - margin, p.y)))

\* The directions cos(angle), sin(angle) the radius search takes here, the points the
\* arena-wide search draws, and the offsets of the last resort.
Directions == {<<1, 0>>, <<-1, 0>>}
ArenaPoints == {Point(15, 15), Point(75, 50)}
LastResortOffsets == {<<-LastResortOffset, -LastResortOffset>>,
                      <<LastResortOffset, LastResortOffset>>}

\* A variant: the last resort is not clamped.
last_resort_unclamped(parent) ==
    {Point(parent.x + o[1], parent.y + o[2]) : o \in LastResortOffsets}

\* "Last resort": max(15, min(canvas_width - 15, parent_x + uniform(-10, 10))), and y.
last_resort(parent) ==
    {clamp_position(Point(parent.x + o[1], parent.y + o[2]),
                    canvas_width, canvas_height, PlacementMargin) :
        o \in LastResortOffsets}

\* find_empty_space_near_parent: every result it can return, with the search that
\* found it.  The source makes 50 attempts at the radii 20, 25, .. 265, here the
\* attempts 0..MaxAttempt are made.  An attempt can fail when one of its candidates
\* is refused; a later attempt is made only when every earlier one failed.
find_empty_space_near_parent(parent, existing) ==
    LET ring(a) ==
            {clamp_position(Point(parent.x + d[1] * (base_radius + a * RadiusStep),
                                  parent.y + d[2] * (base_radius + a * RadiusStep)),
                            canvas_width, canvas_height, PlacementMargin) :
                d \in Directions}
        fails(a) == \E c \in ring(a) : ~is_position_valid(c, existing)
        reached == {a \in 0..MaxAttempt : \A e \in 0..(a - 1) : fails(e)}
        near == UNION {{c \in ring(a) : is_position_valid(c, existing)} : a \in reached}
        searched == \A a \in 0..MaxAttempt : fails(a)
        anywhere == IF searched
                    THEN {c \in ArenaPoints : is_position_valid(c, existing)}
                    ELSE {}
        crowded == searched /\ \E c \in ArenaPoints : ~is_position_valid(c, existing)
        offset == IF crowded THEN last_resort(parent) ELSE {}
    IN  {[position |-> c, via |-> "radius", parent |-> parent] : c \in near}
        \cup {[position |-> c, via |-> "fallback", parent |-> parent] : c \in anywhere}
        \cup {[position |-> c, via |-> "last_resort", parent |-> parent] : c \in offset}

\* The reproduction loop of simulation_step with reproduce(): the two offspring of
\* each parent in turn; the second is placed with self.bacteria_population + offspring,
\* the list at the start of the step and the first offspring of the same parent.
RECURSIVE place_offspring(_, _)
place_offspring(parents, occupied) ==
    IF parents = <<>> THEN {<<>>}
    ELSE UNION {UNION {
             {<<c1, c2>> \o rest : rest \in place_offspring(Tail(parents), occupied)} :
                 c2 \in find_empty_space_near_parent(Head(parents),
                                                     occupied \o <<c1.position>>)} :
                 c1 \in find_empty_space_near_parent(Head(parents), occupied)}

\* The survivors and the parents a step takes here: every organism survives or all
\* but the first of the list, and the parents are the survivors among the first
\* k - 1 of the list.  A selection is <<alive, eligible>>, two sets of indices.
Selections(n) ==
    {sel \in {<<alive, {i \in alive : i < k}>> : alive \in {1..n, 2..n}, k \in 1..4} :
        Cardinality(sel[1]) + 2 * Cardinality(sel[2]) <= MaxArena}

\* The elements of s at the indices in I, in order.
RECURSIVE Pick(_, _, _)
Pick(s, I, i) ==
    IF i > Len(s) THEN <<>>
    ELSE (IF i \in I THEN <<s[i]>> ELSE <<>>) \o Pick(s, I, i + 1)

Positions(batch) == [i \in 1..Len(batch) |-> batch[i].position]

\* The positions the draws take here.
StFounderPoints == {Point(50, 50), Point(55, 50), Point(60, 50)}
TkFounderPoints == {Point(FounderMargin, FounderMargin), Point(TkFounderMaxX, TkFounderMaxY)}
TkOffsets == {<<-TkOffspringOffset, -TkOffspringOffset>>,
              <<TkOffspringOffset, TkOffspringOffset>>}
\* canvas.winfo_width(), canvas.winfo_height(): 1 before the window is drawn.
CanvasSizes == {<<1, 1>>, <<900, 300>>, <<1000, 450>>}

\* streamlit_app.py initialize_population: each founder in turn takes a position that
\* is_position_valid accepts, or none when its 100 draws were all refused.
RECURSIVE seed_founders(_, _)
seed_founders(n, placed) ==
    IF n = 0 THEN {placed}
    ELSE UNION {seed_founders(n - 1, Append(placed, c)) :
                    c \in {c \in StFounderPoints : is_position_valid(c, placed)}}
         \cup (IF \E c \in StFounderPoints : ~is_position_valid(c, placed)
               THEN seed_founders(n - 1, placed) ELSE {})

\* simulasi.py initialize_population: no founder looks at the others.
RECURSIVE tk_seed_founders(_, _)
tk_seed_founders(n, placed) ==
    IF n = 0 THEN {placed}
    ELSE UNION {tk_seed_founders(n - 1, Append(placed, c)) : c \in TkFounderPoints}

\* simulasi.py Bacteria.reproduce: the two offspring of each parent in turn.
RECURSIVE tk_place_offspring(_, _, _)
tk_place_offspring(parents, w, h) ==
    IF parents = <<>> THEN {<<>>}
    ELSE LET p == Head(parents)
             found == {[position |-> clamp_position(Point(p.x + o[1], p.y + o[2]),
                                                    w, h, PlacementMargin),
                        via |-> "offset", parent |-> p] : o \in TkOffsets}
         IN  UNION {UNION {
                 {<<c1, c2>> \o rest : rest \in tk_place_offspring(Tail(parents), w, h)} :
                     c2 \in found} : c1 \in found}

\* simulasi.py render_bacteria, called by update_display: nothing is drawn, and no
\* position is changed, before the canvas has a size.
render_bacteria(organisms, size) ==
    IF size[1] <= 1 \/ size[2] <= 1 THEN organisms
    ELSE [i \in 1..Len(organisms) |->
             clamp_position(organisms[i], size[1], size[2], RenderMargin)]

NoArena ==
    [organisms |-> <<>>, before |-> <<>>, batch |-> <<>>,
     width |-> canvas_width, height |-> canvas_height, tick |-> 0, requested |-> 0]

\* streamlit_app.py initialize_population(n), the positions.
ArStInitialize(n) ==
    /\ app = "streamlit"
    /\ \E founders \in seed_founders(n, <<>>) :
           arena' = [NoArena EXCEPT !.organisms = founders, !.requested = n]
    /\ UNCHANGED <<app, engine, driver, probe>>

\* streamlit_app.py simulation_step, the positions.
ArStStep ==
    /\ app = "streamlit"
    /\ arena.tick < MaxArenaTick
    /\ \E sel \in Selections(Len(arena.organisms)) :
       \E batch \in place_offspring(Pick(arena.organisms, sel[2], 1), arena.organisms) :
           arena' = [organisms |-> Pick(arena.organisms, sel[1], 1) \o Positions(batch),
                     before |-> arena.organisms,
                     batch |-> batch,
                     width |-> canvas_width, height |-> canvas_height,
                     tick |-> arena.tick + 1, requested |-> arena.requested]
    /\ UNCHANGED <<app, engine, driver, probe>>

\* simulasi.py reset_population, the positions: initialize_population, update_display.
ArTkReset(n, size) ==
    /\ app = "tkinter"
    /\ \E founders \in tk_seed_founders(n, <<>>) :
           arena' = [NoArena EXCEPT !.organisms = render_bacteria(founders, size),
                                    !.width = TkCanvasWidth, !.height = TkCanvasHeight,
                                    !.requested = n]
    /\ UNCHANGED <<app, engine, driver, probe>>

\* simulasi.py run_simulation, the positions: simulation_step, update_display.
ArTkStep(size) ==
    /\ app = "tkinter"
    /\ arena.tick < MaxArenaTick
    /\ LET w == IF size[1] <= 1 THEN TkFallbackWidth ELSE size[1]
           h == IF size[2] <= 1 THEN TkFallbackHeight ELSE size[2]
       IN  \E sel \in Selections(Len(arena.organisms)) :
           \E batch \in tk_place_offspring(Pick(arena.organisms, sel[2], 1), w, h) :
               arena' = [organisms |->
                             render_bacteria(Pick(arena.organisms, sel[1], 1)
                                                 \o Positions(batch), size),
                         before |-> arena.organisms,
                         batch |-> batch,
                         width |-> w, height |-> h,
                         tick |-> arena.tick + 1, requested |-> arena.requested]
    /\ UNCHANGED <<app, engine, driver, probe>>

(***************************************************************************)
(* Specifications.                                                         *)
(***************************************************************************)
NoProbe == [method |-> "none"]

InitEngine ==
    /\ current_tick = 0
    /\ antibiotic_level = DefaultAntibiotic
    /\ max_generations = DefaultGenerations
    /\ current_max_generation = 0
    /\ simulation_ended = FALSE
    /\ population_history = <<>>
    /\ resistance_history = <<>>
    /\ tick_history = <<>>
    /\ generation_history = <<>>
    /\ is_running = FALSE
    /\ auto_run = FALSE
    /\ timers = 0
    /\ aged_out = 0
    /\ pre_cap = bacteria_population
    /\ probe = NoProbe

\* BacteriaSimulation.__init__ leaves the population empty;
\* ImprovedBacteriaSimulation.__init__ calls initialize_population() for 50 founders.
InitFounders(kinds) ==
    /\ app \in {"streamlit", "tkinter"}
    /\ \/ /\ app = "streamlit"
          /\ bacteria_population = <<>>
       \/ /\ app = "tkinter"
          /\ \E kindA \in kinds, kindB \in kinds :
                bacteria_population =
                    Norm(<<[kindA EXCEPT !.count = DefaultPopulation \div 2],
                           [kindB EXCEPT !.count = DefaultPopulation - (DefaultPopulation \div 2)]>>)
    /\ InitEngine

Init == InitFounders(FounderKinds) /\ arena = NoArena

Next ==
    \/ StRerun(Draws, MaxTick)
    \/ \E level \in AntibioticLevels, gen \in GenerationTargets :
           StSliders(level, gen, Draws, MaxTick)
    \/ \E n \in PopulationSizes, kindA \in FounderKinds, kindB \in FounderKinds :
           StReset(n, kindA, kindB)
    \/ StStartStop(Draws, MaxTick)
    \/ StAutoRun(Draws, MaxTick)
    \/ StManualStep(Draws, MaxTick)
    \/ \E level \in AntibioticLevels : TkToggle(level, Draws, MaxTick)
    \/ \E level \in AntibioticLevels : TkTimer(level, Draws, MaxTick)
    \/ \E n \in PopulationSizes, gen \in GenerationTargets,
          kindA \in FounderKinds, kindB \in FounderKinds :
           TkReset(n, gen, kindA, kindB)

Spec == Init /\ [][Next]_vars

\* The long runs.  The Streamlit page is stepped by hand past the history limit,
\* every step keeping the first run of the list alone (DeepDraws) while the founders
\* grow old.  The tkinter program saves a sample every fifth tick, so it runs for
\* more than a thousand ticks, every organism surviving (TkDeepDraws), with the
\* generation target at the upper end of its Spinbox.
NextDeep ==
    \/ \E n \in PopulationSizes, kindA \in FounderKinds, kindB \in FounderKinds :
           StReset(n, kindA, kindB)
    \/ StManualStep(DeepDraws, MaxDeepTick)
    \/ TkToggle(DefaultAntibiotic, TkDeepDraws, MaxTkDeepTick)
    \/ TkTimer(DefaultAntibiotic, TkDeepDraws, MaxTkDeepTick)
    \/ \E n \in PopulationSizes, kindA \in FounderKinds, kindB \in FounderKinds :
           TkReset(n, MaxGenerations, kindA, kindB)

SpecDeep == Init /\ [][NextDeep]_vars

\* The tkinter program with numbers typed into its Spinboxes.  from_ and to bound the
\* arrow buttons only; the entry takes any text, and IntVar.get() returns any integer
\* typed there.  reset_population assigns what it reads.
TypedPopulations == {0, 9, 10, 200, 201}
TypedGenerations == {4, 5, 50, 51}

InitTyped == Init /\ app = "tkinter"

NextTyped ==
    \/ \E level \in AntibioticLevels : TkToggle(level, Draws, MaxTypedTick)
    \/ \E level \in AntibioticLevels : TkTimer(level, Draws, MaxTypedTick)
    \/ \E n \in TypedPopulations, gen \in TypedGenerations,
          kindA \in FounderKinds, kindB \in FounderKinds :
           TkReset(n, gen, kindA, kindB)

SpecTyped == InitTyped /\ [][NextTyped]_vars

\* A driver that keeps stepping towards a fixed generation target.  The state after
\* Reset with the smallest population and target; then Start (tkinter) or the Auto-run
\* checkbox (Streamlit) and nothing but timer callbacks and reruns.
\*
\* The exposures of these runs.  In any tick no organism may survive.  Otherwise the
\* first run of the list survives alone and its offspring die in the tick after their
\* birth, until it is within LiveWindow ticks of its max_age: then every organism
\* survives, so that a younger run outlives it.  In the tick after a death of old age
\* the younger organisms either all die, and the new first run goes on alone, or live
\* on, and from then on every organism survives.  Every child draws the largest
\* mutations, which give the longest lives.
LiveDraws ==
    LET s == bacteria_population
        window == s # <<>> /\ s[1].age + LiveWindow >= s[1].max_age
        young == \E i \in 2..Len(s) : s[i].age >= 1
        alive == IF window \/ (young /\ aged_out = 0) THEN {<<0, 0>>}
                 ELSE IF young THEN {<<0, 0>>, <<0, 99999>>}
                 ELSE {<<0, 99999>>}
    IN  [u |-> alive \cup {<<99999, 99999>>},
         m |-> {<<MutationUp, MutationUp>>},
         pick |-> {"head"}]
LiveTarget == 5

InitLive ==
    /\ app \in {"streamlit", "tkinter"}
    /\ \E kindA \in FounderKinds :
           bacteria_population = <<[kindA EXCEPT !.count = 10]>>
    /\ current_tick = 0
    /\ antibiotic_level = DefaultAntibiotic
    /\ max_generations = LiveTarget
    /\ current_max_generation = 0
    /\ simulation_ended = FALSE
    /\ population_history = <<>>
    /\ resistance_history = <<>>
    /\ tick_history = <<>>
    /\ generation_history = <<>>
    /\ is_running = FALSE
    /\ auto_run = FALSE
    /\ timers = 0
    /\ aged_out = 0
    /\ pre_cap = bacteria_population
    /\ probe = NoProbe
    /\ arena = NoArena

NextLive ==
    \/ ~auto_run /\ StAutoRun(LiveDraws, MaxLiveTick)
    \/ StRerun(LiveDraws, MaxLiveTick)
    \/ ~is_running /\ TkToggle(DefaultAntibiotic, LiveDraws, MaxLiveTick)
    \/ TkTimer(DefaultAntibiotic, LiveDraws, MaxLiveTick)

\* What every callback and rerun of this driver does until the simulation is ended:
\* it executes a step, or it sets simulation_ended.  root.after fires the pending
\* callback and st.rerun() runs the script again, so the driver does not stop while
\* this is possible.
Driven ==
    /\ ~simulation_ended
    /\ current_tick < MaxLiveTick
    /\ \/ current_tick' = current_tick + 1 /\ simulation_ended' \in BOOLEAN
       \/ current_tick' = current_tick /\ simulation_ended' = TRUE

SpecLive ==
    InitLive /\ [][NextLive]_vars /\ WF_<<current_tick, simulation_ended>>(Driven)

\* The positions of a few organisms.  BacteriaSimulation.__init__ leaves the
\* population empty; ImprovedBacteriaSimulation.__init__ seeds the founders.
InitArena ==
    /\ InitFounders({Bacteria(0, 50, 800, 85, 0, 0, 1)})
    /\ \/ /\ app = "streamlit"
          /\ arena = NoArena
       \/ /\ app = "tkinter"
          /\ \E n \in 1..MaxFounders : \E founders \in tk_seed_founders(n, <<>>) :
                arena = [NoArena EXCEPT !.organisms = founders,
                                        !.width = TkCanvasWidth, !.height = TkCanvasHeight,
                                        !.requested = n]

NextArena ==
    \/ \E n \in 1..MaxFounders : ArStInitialize(n)
    \/ ArStStep
    \/ \E n \in 1..MaxFounders, size \in CanvasSizes : ArTkReset(n, size)
    \/ \E size \in CanvasSizes : ArTkStep(size)

SpecArena == InitArena /\ [][NextArena]_vars

(***************************************************************************)
(* The pure methods of Bacteria, called on inputs drawn from bounded sets. *)
(***************************************************************************)
ProbeRates == {500 + 50 * k : k \in 0..70}      \* reproduction_rate 0.5, 0.55 .. 4.0
ProbeTicks == 0..45
ProbeLast == {0, 3}

CallCanReproduce(rate, last, tick) ==
    /\ probe' = [method |-> "can_reproduce", reproduction_rate |-> rate,
                 last_reproduction |-> last, current_tick |-> tick,
                 result |-> can_reproduce(Bacteria(0, 0, rate, 100, 0, last, 1), tick)]
    /\ UNCHANGED <<app, engine, driver, arena>>

CallIntervals(rate1, rate2) ==
    /\ probe' = [method |-> "reproduction_interval",
                 rate1 |-> rate1, interval1 |-> reproduction_interval(rate1),
                 rate2 |-> rate2, interval2 |-> reproduction_interval(rate2)]
    /\ UNCHANGED <<app, engine, driver, arena>>

\* resistance_rate and antibiotic_level 0.00, 0.05 .. 1.00
ProbeLevels == {50 * k : k \in 0..20}

\* survive_antibiotic_exposure: the chance it computes, and what it returns for the
\* largest draw below the chance and for the draw equal to it.
CallSurvive(resistance_rate, level) ==
    LET b == Bacteria(0, resistance_rate, 1000, 100, 0, 0, 1)
        chance == survival_chance(resistance_rate, level)
    IN  /\ probe' = [method |-> "survive_antibiotic_exposure",
                     resistance_rate |-> resistance_rate, antibiotic_level |-> level,
                     survival_chance |-> chance,
                     below |-> survive_antibiotic_exposure(b, level, chance - 1),
                     at |-> survive_antibiotic_exposure(b, level, chance)]
        /\ UNCHANGED <<app, engine, driver, arena>>

\* Populations at the ends of the resistance bands, some of their organisms very old.
BandEdges == {0, 299, 300, 301, 699, 700, 701, 1000}
StatisticsKinds ==
    {Bacteria(IF r \in {299, 700, 1000} THEN 81 ELSE 80, r, 1000 + r, 100, 0, 0, 1) :
        r \in BandEdges}
StatisticsCounts == {0, 1, MaxBandCount}

\* get_statistics and update_statistics of a list of up to three runs.
CallStatistics(kinds, counts) ==
    LET population == Norm([i \in 1..3 |-> [kinds[i] EXCEPT !.count = counts[i]]])
    IN  /\ probe' = [method |-> "get_statistics", population |-> population,
                     result |-> get_statistics(population),
                     labels |-> update_statistics(population)]
        /\ UNCHANGED <<app, engine, driver, arena>>

\* Parents over the whole range of every trait, and the draws at the ends and in the
\* middle of uniform(-0.15, 0.15), uniform(-0.075, 0.075) and randint(-20, 20).
ParentResistances == {0, 100, 500, 900, 1000}
ParentRates == {500, 560, 2000, 3950, 4000}
ParentMaxAges == {60, 75, 100, 135, 150}
Mutations == [resistance : {-150, 0, 150}, reproduction : {-75, 0, 75}, age : {-20, 0, 20}]

\* reproduce of one parent that is due, at tick 45.
CallReproduce(parent, m1, m2) ==
    /\ probe' = [method |-> "reproduce", parent |-> parent, m1 |-> m1, m2 |-> m2,
                 offspring |-> reproduce(parent, 45, m1, m2),
                 after |-> after_reproduce(parent, 45)]
    /\ UNCHANGED <<app, engine, driver, arena>>

\* Parents in a corner of the arena, inside it and in the opposite corner, and lists
\* of up to MaxOccupied organisms at or next to the candidates of the searches.
PlacementParents ==
    {Point(PlacementMargin, PlacementMargin), Point(50, 50),
     Point(canvas_width - PlacementMargin, canvas_height - PlacementMargin)}
OccupiedPoints ==
    PlacementParents \cup {Point(72, 50), Point(28, 50), Point(75, 50), Point(762, 385)}
OccupiedLists == UNION {[1..n -> OccupiedPoints] : n \in 0..MaxOccupied}

\* find_empty_space_near_parent(parent_x, parent_y, existing_bacteria).
CallFindEmptySpace(parent, existing) ==
    /\ probe' = [method |-> "find_empty_space_near_parent",
                 parent |-> parent, existing |-> existing,
                 result |-> find_empty_space_near_parent(parent, existing)]
    /\ UNCHANGED <<app, engine, driver, arena>>

\* Bacteria.__post_init__: id = f"bacteria_{random.randint(1000, 9999)}" when no id
\* is given; no caller gives one.
bacteria_id(draw) == <<"bacteria_", draw>>
IdDraws == {1000, 5000, 9999}       \* random.randint(1000, 9999)

\* The ids of a list of founders and of the two offspring of the first of them:
\* each Bacteria(...) draws its own id, a child's parent_id is its parent's id.
CallPostInit(founders, children) ==
    LET seeded == [i \in 1..Len(founders) |->
                      [id |-> bacteria_id(founders[i]), parent_id |-> <<>>]]
        offspring == [i \in 1..2 |->
                         [id |-> bacteria_id(children[i]), parent_id |-> seeded[1].id]]
    IN  /\ probe' = [method |-> "__post_init__", organisms |-> seeded \o offspring]
        /\ UNCHANGED <<app, engine, driver, arena>>

\* One call is made in each behaviour.
NextFn ==
    /\ probe = NoProbe
    /\ \/ \E rate \in ProbeRates, last \in ProbeLast, tick \in ProbeTicks :
              CallCanReproduce(rate, last, tick)
       \/ \E rate1 \in ProbeRates, rate2 \in ProbeRates : CallIntervals(rate1, rate2)
       \/ \E resistance_rate \in ProbeLevels, level \in ProbeLevels :
              CallSurvive(resistance_rate, level)
       \/ \E kinds \in [1..3 -> StatisticsKinds], counts \in [1..3 -> StatisticsCounts] :
              CallStatistics(kinds, counts)
       \/ \E resistance_rate \in ParentResistances, rate \in ParentRates,
             max_age \in ParentMaxAges, m1 \in Mutations,
             m2 \in {MutationUp, MutationDown} :
              CallReproduce(Bacteria(10, resistance_rate, rate, max_age, 1, 0, 1), m1, m2)
       \/ \E parent \in PlacementParents, existing \in OccupiedLists :
              CallFindEmptySpace(parent, existing)
       \/ \E n \in 1..MaxFounders :
          \E founders \in [1..n -> IdDraws], children \in [1..2 -> IdDraws] :
              CallPostInit(founders, children)

InitFn == Init /\ app = "streamlit"

SpecFn == InitFn /\ [][NextFn]_vars

(***************************************************************************)
(* Properties.                                                             *)
(***************************************************************************)
Organisms(s) == {s[i] : i \in 1..Len(s)}

\* The number of list elements of s that are equal to b.
CountOf(s, b) ==
    LET same == SelectSeq(s, LAMBDA g : Kind(g) = Kind(b)) IN Size(same)

histories == <<population_history, resistance_history, tick_history, generation_history>>

\* C1: every organism of the live collection has 0 <= resistance_rate <= 1,
\* 0.5 <= reproduction_rate <= 4.0 and 60 <= max_age <= 150, in both programs.
C1_TraitsInRange ==
    \A b \in Organisms(bacteria_population) :
        /\ 0 <= b.resistance_rate /\ b.resistance_rate <= 1000
        /\ 500 <= b.reproduction_rate /\ b.reproduction_rate <= 4000
        /\ 60 <= b.max_age /\ b.max_age <= 150

\* An offspring whose resistance and max_age both sit on the clamp.
C1_ClampedOffspring ==
    \E b \in Organisms(bacteria_population) :
        b.generation >= 2 /\ b.resistance_rate = 0 /\ b.max_age = 60

\* C2: after a step every organism of the live collection has age < max_age; an
\* organism whose age reaches max_age is dropped in that tick and has no offspring
\* in it (the newborn of a tick are two for each parent that is still in the list).
C2_AgeBelowMaxAge ==
    /\ \A b \in Organisms(bacteria_population) \cup Organisms(pre_cap) : b.age < b.max_age
    /\ current_tick > 0 =>
          Size(SelectSeq(pre_cap, LAMBDA g : g.age = 0))
              = 2 * Size(SelectSeq(pre_cap,
                                   LAMBDA g : g.age > 0 /\ g.last_reproduction = current_tick))

\* The age check of the last step dropped an organism.
C2_AgedOut == aged_out > 0 /\ current_tick > 0

\* C3: the live collection never holds more than 800 organisms.
C3_AtMost800 == Size(bacteria_population) <= 800

\* A step whose survivors and offspring were more than 800.
C3_Overflow == Size(pre_cap) > 800 /\ Size(bacteria_population) <= 800

\* C4: the histories have one length, and it is at most 200 (generation_history
\* exists in the Streamlit program only).
C4_HistoriesAligned ==
    /\ Len(population_history) = Len(tick_history)
    /\ Len(resistance_history) = Len(tick_history)
    /\ app = "streamlit" => Len(generation_history) = Len(tick_history)
    /\ Len(tick_history) <= 200

\* The oldest sample has been evicted (the first sample is taken at tick 1 in the
\* Streamlit program and at tick 5 in the tkinter program).
C4_Evicted ==
    /\ Len(tick_history) = 200
    /\ tick_history[1] > (IF app = "streamlit" THEN 1 ELSE HistoryEvery)

C6_StepEndsSimulation ==
    [][current_tick' = current_tick + 1 =>
          ((bacteria_population' = <<>> \/ current_max_generation' >= max_generations')
              => simulation_ended')]_vars

\* C7: when survivors plus offspring are more than 800 the live collection is the
\* 400 of highest resistance_rate followed by 200 others of them, nothing else and
\* nothing twice; otherwise nothing is discarded.
C7_Capping ==
    IF Size(pre_cap) > 800
    THEN LET top == Take(bacteria_population, 400)
             rest == Drop(bacteria_population, 400)
         IN  /\ Size(top) = 400
             /\ Size(rest) = 200
             /\ \A b \in Organisms(bacteria_population) :
                    CountOf(bacteria_population, b) <= CountOf(pre_cap, b)
             /\ \A t \in Organisms(top) :
                    /\ \A r \in Organisms(rest) : r.resistance_rate <= t.resistance_rate
                    /\ \A b \in Organisms(pre_cap) :
                           CountOf(bacteria_population, b) < CountOf(pre_cap, b)
                               => b.resistance_rate <= t.resistance_rate
    ELSE bacteria_population = pre_cap

\* An overflow with organisms of different resistance, some of them discarded.
C7_Overflow ==
    /\ Size(pre_cap) > 800
    /\ \E a, b \in Organisms(pre_cap) : a.resistance_rate < b.resistance_rate
    /\ Size(bacteria_population) = 600

\* C8: current_max_generation is the largest generation in the live collection,
\* and 0 when the collection is empty.
C8_MaxGenerationIsCurrent ==
    current_max_generation =
        (IF bacteria_population = <<>> THEN 0
         ELSE SetMax({b.generation : b \in Organisms(bacteria_population)}))

\* floor(reproduction_rate * 10), the rate in thousandths: the f with f <= 10 rate < f + 1.
FloorTenfold(rate) == CHOOSE f \in 0..100 : f * 1000 <= rate * 10 /\ rate * 10 < (f + 1) * 1000

\* C9: can_reproduce is true iff current_tick - last_reproduction is at least
\* max(1, floor(reproduction_rate * 10)); that is 5 ticks at rate 0.5, 10 at 1.0 and
\* 40 at 4.0.
C9_Eligibility ==
    probe.method = "can_reproduce" =>
        LET needed == Max(1, FloorTenfold(probe.reproduction_rate))
        IN  /\ probe.result = (probe.current_tick - probe.last_reproduction >= needed)
            /\ probe.reproduction_rate = 500 => needed = 5
            /\ probe.reproduction_rate = 1000 => needed = 10
            /\ probe.reproduction_rate = 4000 => needed = 40

\* A call at exactly the required interval, at rate 4.0.
C9_AtInterval ==
    /\ probe.method = "can_reproduce"
    /\ probe.reproduction_rate = 4000
    /\ probe.current_tick - probe.last_reproduction = 40
    /\ probe.result

\* C10 as claimed: of two organisms the one with the larger reproduction_rate never
\* has the longer interval, and at reproduction_rate >= 4.0 the interval is 1 tick.
C10_HigherRateShorter ==
    probe.method = "reproduction_interval" =>
        /\ probe.rate1 > probe.rate2 => probe.interval1 <= probe.interval2
        /\ probe.rate1 >= 4000 => probe.interval1 = 1

\* C10 amended: of two organisms the one with the larger reproduction_rate never has
\* the shorter interval; the interval is 5 ticks at rate 0.5 and 40 ticks at 4.0.
C10_HigherRateLonger ==
    probe.method = "reproduction_interval" =>
        /\ probe.rate1 > probe.rate2 => probe.interval1 >= probe.interval2
        /\ probe.rate1 = 500 => probe.interval1 = 5
        /\ probe.rate1 = 4000 => probe.interval1 = 40

\* Two rates whose intervals differ.
C10_TwoRates ==
    /\ probe.method = "reproduction_interval"
    /\ probe.rate1 = 4000
    /\ probe.rate2 = 500
    /\ probe.interval1 > probe.interval2

\* C11: the survival probability is min(1, 0.95 + 0.05 (resistance_rate - level)) when
\* resistance_rate >= level and 1 - min(0.95, 0.8 (level - resistance_rate)) otherwise;
\* it is at least 0.95 at level 0, is 0.2 at level 1 and resistance 0, and is never
\* below 0.05; the organism survives exactly the draws below it.
C11_SurvivalChance ==
    probe.method = "survive_antibiotic_exposure" =>
        LET r == probe.resistance_rate
            a == probe.antibiotic_level
            p == probe.survival_chance
        IN  /\ r >= a => p = Min(100000, 95000 + 5 * (r - a))
            /\ r < a => p = 100000 - Min(95000, 80 * (a - r))
            /\ a = 0 => p >= 95000
            /\ (a = 1000 /\ r = 0) => p = 20000
            /\ p >= 5000
            /\ probe.below /\ ~probe.at

\* The call at antibiotic level 1 and resistance 0.
C11_WidestGap ==
    /\ probe.method = "survive_antibiotic_exposure"
    /\ probe.antibiotic_level = 1000
    /\ probe.resistance_rate = 0
    /\ probe.survival_chance = 20000

\* C12: in streamlit_app.py a position accepted by the radius search or by the
\* arena-wide search is at least 8 units away from every organism of the list and
\* from every offspring placed before it in the same step, whoever its parent is.
C12_SpacedFromBatch ==
    app = "streamlit" =>
        \A j \in 1..Len(arena.batch) :
            arena.batch[j].via \in {"radius", "fallback"} =>
                /\ \A i \in 1..Len(arena.before) :
                       distance_squared(arena.before[i], arena.batch[j].position) >= 64
                /\ \A i \in 1..(j - 1) :
                       distance_squared(arena.batch[i].position, arena.batch[j].position) >= 64

\* C18: every organism is inside the arena the engine used for the tick, less the
\* margin of the offspring placement: 15 <= x <= width - 15, 15 <= y <= height - 15.
C18_InsideMargin ==
    \A i \in 1..Len(arena.organisms) :
        /\ 15 <= arena.organisms[i].x /\ arena.organisms[i].x <= arena.width - 15
        /\ 15 <= arena.organisms[i].y /\ arena.organisms[i].y <= arena.height - 15

\* C13: whatever the state before, initialize_population leaves current_tick = 0,
\* current_max_generation = 0, simulation_ended false, every history empty and a
\* population of generation 0 with resistance_rate in [0.05, 0.25], reproduction_rate
\* in [0.8, 1.5], max_age in [85, 120] and age in [0, 15].
C13_InitializeResets ==
    [][(\/ \E n \in PopulationSizes, kindA \in FounderKinds, kindB \in FounderKinds :
              StReset(n, kindA, kindB)
        \/ \E n \in PopulationSizes, gen \in GenerationTargets,
              kindA \in FounderKinds, kindB \in FounderKinds :
              TkReset(n, gen, kindA, kindB))
       => /\ current_tick' = 0
          /\ current_max_generation' = 0
          /\ ~simulation_ended'
          /\ histories' = <<<<>>, <<>>, <<>>, <<>>>>
          /\ \A b \in Organisms(bacteria_population') :
                 /\ b.generation = 0
                 /\ 50 <= b.resistance_rate /\ b.resistance_rate <= 250
                 /\ 800 <= b.reproduction_rate /\ b.reproduction_rate <= 1500
                 /\ 85 <= b.max_age /\ b.max_age <= 120
                 /\ 0 <= b.age /\ b.age <= 15]_vars

\* The tkinter program was reset while it ran: the callback is still pending.
C13_ResetWhileRunning ==
    /\ app = "tkinter"
    /\ current_tick = 0
    /\ timers > 0
    /\ ~is_running
    /\ bacteria_population # <<>>

\* C14: a population size outside [10, 200], a generation target outside [5, 50] or an
\* antibiotic level outside [0, 1] is rejected or clamped by the command handlers: the
\* engine's generation target stays in 5..50, its antibiotic level in [0, 1], and a
\* freshly initialised population has 10..200 founders.
C14_ConfigurationInRange ==
    /\ 5 <= max_generations /\ max_generations <= MaxGenerations
    /\ 0 <= antibiotic_level /\ antibiotic_level <= 1000
    /\ current_tick = 0 =>
           10 <= Size(bacteria_population) /\ Size(bacteria_population) <= 200

\* C15: for every live collection the three band counts partition it: high counts the
\* organisms with resistance_rate > 0.7, medium those with 0.3 <= resistance_rate <= 0.7,
\* low those with resistance_rate < 0.3; every organism is in exactly one band and
\* high + medium + low is the population size.
C15_BandsPartition ==
    probe.method = "get_statistics" =>
        LET s == probe.population
            st == probe.result
            High(b) == b.resistance_rate > 700
            Medium(b) == 300 <= b.resistance_rate /\ b.resistance_rate <= 700
            Low(b) == b.resistance_rate < 300
        IN  /\ st.high_resistance_count = Size(SelectSeq(s, High))
            /\ st.medium_resistance_count = Size(SelectSeq(s, Medium))
            /\ st.low_resistance_count = Size(SelectSeq(s, Low))
            /\ st.high_resistance_count + st.medium_resistance_count
                   + st.low_resistance_count = Size(s)
            /\ st.population = Size(s)
            /\ \A b \in Organisms(s) :
                   /\ High(b) \/ Medium(b) \/ Low(b)
                   /\ ~(High(b) /\ Medium(b)) /\ ~(Medium(b) /\ Low(b)) /\ ~(High(b) /\ Low(b))
            /\ s # <<>> =>
                   probe.labels.info =
                       <<Size(SelectSeq(s, High)), Size(SelectSeq(s, Medium)), Size(SelectSeq(s, Low)), Size(s)>>

\* Statistics of a list with organisms at 0.299, at 0.7 and at 0.701.
C15_ThreeBands ==
    /\ probe.method = "get_statistics"
    /\ {299, 700, 701} = {b.resistance_rate : b \in Organisms(probe.population)}
    /\ probe.result.high_resistance_count = MaxBandCount
    /\ probe.result.medium_resistance_count = 1
    /\ probe.result.low_resistance_count = 1

\* C16: on an empty live collection the statistics are population 0, mean resistance
\* 0, mean reproduction rate 0, resistance range (0, 0), the three band counts 0,
\* very-old count 0 and mean age 0, and no query changes the engine state.
C16_EmptyStatistics ==
    [][probe'.method = "get_statistics" =>
          /\ UNCHANGED engine
          /\ probe'.population = <<>> =>
                 /\ probe'.result =
                        [population |-> 0, avg_resistance |-> 0, avg_reproduction |-> 0,
                         resistance_range |-> <<0, 0>>, high_resistance_count |-> 0,
                         medium_resistance_count |-> 0, low_resistance_count |-> 0,
                         very_old_count |-> 0, avg_age |-> 0]
                 /\ probe'.labels.population = 0
                 /\ probe'.labels.avg_resistance = 0
                 /\ probe'.labels.avg_reproduction = 0
                 /\ probe'.labels.resistance_range = <<0, 0>>]_vars

\* The statistics of the empty list were asked for.
C16_AskedWhenEmpty ==
    /\ probe.method = "get_statistics"
    /\ probe.population = <<>>
    /\ probe.result.population = 0

\* C17: a step never fails.  On an empty collection it leaves the collection empty
\* and, if it records a sample, records population 0 and mean resistance 0; on a
\* collection above 800 the size asked of random.sample is at least 0 and at most the
\* size of the remainder bacteria_population[400:] it samples from.
C17_StepNeverFails ==
    [][current_tick' = current_tick + 1 =>
          /\ bacteria_population = <<>> =>
                 /\ bacteria_population' = <<>>
                 /\ tick_history' # tick_history =>
                        /\ population_history'[Len(population_history')] = 0
                        /\ resistance_history'[Len(resistance_history')] = 0
          /\ Size(pre_cap') > PopulationLimit =>
                 /\ 0 <= sample_size(Size(pre_cap'))
                 /\ sample_size(Size(pre_cap')) <= Size(Drop(pre_cap', TopResistant))]_vars

\* Two steps in a row recorded population 0: the second one started on an empty
\* collection.
C17_SteppedWhenEmpty ==
    /\ bacteria_population = <<>>
    /\ pre_cap = <<>>
    /\ aged_out = 0
    /\ Len(population_history) >= 2
    /\ population_history[Len(population_history)] = 0
    /\ population_history[Len(population_history) - 1] = 0
    /\ resistance_history[Len(resistance_history)] = 0
    /\ tick_history[Len(tick_history)] = current_tick

\* C19: in each step every survivor that is eligible to reproduce has exactly 2
\* offspring and every other survivor none, so the list before the cap has
\* survivors + 2 * eligible survivors elements; each offspring has age 0, its parent's
\* generation + 1 and last_reproduction = current_tick, and the parent's
\* last_reproduction is set to current_tick.
C19_TwoOffspring ==
    [][current_tick' = current_tick + 1 =>
          LET tick == current_tick'
              Survivor(b) == b.age >= 1
              Parent(b) == b.age >= 1 /\ b.last_reproduction = tick
              Offspring(b) == b.age = 0
              Before(b) == {g \in Organisms(bacteria_population) :
                               [g EXCEPT !.age = @ + 1, !.last_reproduction = 0, !.count = 0]
                                   = [b EXCEPT !.last_reproduction = 0, !.count = 0]}
          IN  /\ Size(pre_cap') = Size(SelectSeq(pre_cap', Survivor)) + 2 * Size(SelectSeq(pre_cap', Parent))
              /\ \A gen \in 0..MaxGenerations :
                     Size(SelectSeq(pre_cap', LAMBDA b : Offspring(b) /\ b.generation = gen + 1))
                         = 2 * Size(SelectSeq(pre_cap', LAMBDA b : Parent(b) /\ b.generation = gen))
              /\ \A b \in Organisms(pre_cap') :
                     /\ Offspring(b) => b.generation >= 1 /\ b.last_reproduction = tick
                     /\ Parent(b) => \E g \in Before(b) : can_reproduce(g, tick)
                     /\ Survivor(b) /\ ~Parent(b) =>
                            /\ ~can_reproduce(b, tick)
                            /\ \E g \in Before(b) : g.last_reproduction = b.last_reproduction]_vars

\* A step in which some survivors reproduced and others did not.
C19_SomeReproduced ==
    /\ current_tick > 0
    /\ \E b \in Organisms(pre_cap) : b.age = 0 /\ b.last_reproduction = current_tick
    /\ \E b \in Organisms(pre_cap) : b.age >= 1 /\ b.last_reproduction = current_tick
    /\ \E b \in Organisms(pre_cap) : b.age >= 1 /\ b.last_reproduction < current_tick

\* C20: every offspring's traits are bounded perturbations of its parent's: the
\* resistance_rate differs by at most 0.15, max_age by at most 20, and the
\* reproduction_rate is clamp(parent's + noise + 0.3 * the offspring's resistance_rate,
\* 0.5, 4.0) with |noise| <= 0.075, so it is at least min(4.0, parent's - 0.075).
C20_BoundedPerturbation ==
    probe.method = "reproduce" =>
        LET parent == probe.parent
            Abs(x) == IF x >= 0 THEN x ELSE -x
        IN  /\ Size(probe.offspring) = 2
            /\ \A c \in Organisms(probe.offspring) :
                   /\ Abs(c.resistance_rate - parent.resistance_rate) <= 150
                   /\ Abs(c.max_age - parent.max_age) <= 20
                   /\ \E noise \in -75..75 :
                          c.reproduction_rate =
                              Max(500, Min(4000, parent.reproduction_rate + noise
                                                    + (3 * c.resistance_rate) \div 10))
                   /\ c.reproduction_rate >= Min(4000, parent.reproduction_rate - 75)
                   /\ c.reproduction_rate >= parent.reproduction_rate - 75

\* A parent at resistance 0.9 whose first child drew the largest resistance mutation
\* and the lowest reproduction noise: the child is clamped to 1.0 and is faster than
\* its parent.
C20_CostRaisesRate ==
    /\ probe.method = "reproduce"
    /\ probe.parent.resistance_rate = 900
    /\ probe.parent.reproduction_rate = 2000
    /\ probe.m1 = [resistance |-> 150, reproduction |-> -75, age |-> -20]
    /\ \E c \in Organisms(probe.offspring) :
           c.resistance_rate = 1000 /\ c.reproduction_rate = 2225

\* C21: placement always returns a position, for any parent and any occupied
\* positions: when the radius search and the arena-wide search are exhausted it
\* returns the last-resort offset, and the position returned lies in the arena margin
\* [15, width - 15] x [15, height - 15].
C21_PlacementReturns ==
    probe.method = "find_empty_space_near_parent" =>
        /\ probe.result # {}
        /\ \A r \in probe.result :
               /\ PlacementMargin <= r.position.x
               /\ r.position.x <= canvas_width - PlacementMargin
               /\ PlacementMargin <= r.position.y
               /\ r.position.y <= canvas_height - PlacementMargin
               /\ r.via = "last_resort" =>
                      /\ r.position.x - probe.parent.x \in -LastResortOffset..LastResortOffset
                      /\ r.position.y - probe.parent.y \in -LastResortOffset..LastResortOffset

\* A parent in the corner of the arena, every search refused: the last resort is
\* clamped back to the margin.
C21_LastResortInCorner ==
    /\ probe.method = "find_empty_space_near_parent"
    /\ probe.parent = Point(PlacementMargin, PlacementMargin)
    /\ \E r \in probe.result :
           r.via = "last_resort" /\ r.position = Point(PlacementMargin, PlacementMargin)

\* C22: history eviction is first in, first out.  A step that records a sample appends
\* the tick, the population size after the cap, the mean resistance and the maximum
\* generation to the ends of their sequences and, when 200 samples are held already,
\* drops the oldest entry of each; the ticks held are strictly increasing, at most 200
\* and end with the tick recorded last.
C22_HistoryFifo ==
    [][LET Shift(h, x) ==
               IF Len(tick_history) < HistoryLimit THEN Append(h, x)
               ELSE Append(Tail(h), x)
           recorded ==
               /\ current_tick' = current_tick + 1
               /\ app = "streamlit" \/ current_tick' % HistoryEvery = 0
       IN  /\ recorded =>
                  /\ tick_history' = Shift(tick_history, current_tick')
                  /\ population_history' =
                         Shift(population_history, Size(bacteria_population'))
                  /\ resistance_history' =
                         Shift(resistance_history, avg_resistance(bacteria_population'))
                  /\ app = "streamlit" =>
                         generation_history' =
                             Shift(generation_history, current_max_generation')
           /\ \A i \in 1..(Len(tick_history') - 1) : tick_history'[i] < tick_history'[i + 1]
           /\ Len(tick_history') <= HistoryLimit
           /\ Len(population_history') = Len(tick_history')
           /\ Len(resistance_history') = Len(tick_history')
           /\ ~recorded /\ current_tick' # 0 => UNCHANGED histories]_vars

\* The window has moved on by more than one sample and is full.
C22_WindowMoved ==
    /\ Len(tick_history) = HistoryLimit
    /\ tick_history[HistoryLimit] = current_tick
    /\ tick_history[1] >= 3 * (IF app = "streamlit" THEN 1 ELSE HistoryEvery)
    /\ population_history[HistoryLimit] = Size(bacteria_population)

\* C23: each step adds exactly 1 to current_tick and exactly 1 to the age of every
\* organism that was in the live collection at its start; no age ever decreases, and
\* current_tick never decreases except through initialize_population.
C23_TickAndAge ==
    [][LET Alike(g, b, years) ==
               [g EXCEPT !.age = @ + years, !.last_reproduction = 0, !.count = 0]
                   = [b EXCEPT !.last_reproduction = 0, !.count = 0]
       IN  /\ current_tick' \in {current_tick, current_tick + 1, 0}
           /\ current_tick' < current_tick =>
                  /\ tick_history' = <<>>
                  /\ current_max_generation' = 0
                  /\ \A b \in Organisms(bacteria_population') : b.generation = 0
           /\ current_tick' = current_tick + 1 =>
                  /\ \A b \in Organisms(pre_cap') :
                         b.age >= 1 =>
                             Size(SelectSeq(pre_cap', LAMBDA g : Alike(g, b, 0)))
                                 <= Size(SelectSeq(bacteria_population,
                                                   LAMBDA g : Alike(g, b, 1)))
                  /\ \A b \in Organisms(bacteria_population') :
                         \E g \in Organisms(pre_cap') : Kind(g) = Kind(b)
           /\ current_tick' = current_tick /\ current_tick # 0 =>
                  bacteria_population' = bacteria_population]_vars

\* A step that dropped organisms for their age and kept others, one year older.
C23_AgedAndKept ==
    /\ current_tick > 0
    /\ aged_out > 0
    /\ \E b \in Organisms(bacteria_population) : b.age >= 2

\* C24: after initialize_population every two distinct founders are at least
\* min_bacteria_distance (8 units) apart.
C24_FoundersApart ==
    arena.tick = 0 =>
        \A i \in 1..Len(arena.organisms) : \A j \in 1..Len(arena.organisms) :
            i # j =>
                distance_squared(arena.organisms[i], arena.organisms[j])
                    >= min_bacteria_distance * min_bacteria_distance

\* C25: the id is an identity: no two distinct organisms of the live collection have
\* the same id, so a parent_id designates at most one organism.
C25_IdIsIdentity ==
    probe.method = "__post_init__" =>
        /\ \A i \in 1..Len(probe.organisms) : \A j \in 1..Len(probe.organisms) :
               i # j => probe.organisms[i].id # probe.organisms[j].id
        /\ \A c \in Organisms(probe.organisms) :
               Cardinality({i \in 1..Len(probe.organisms) :
                               probe.organisms[i].id = c.parent_id}) <= 1

\* C26: after initialize_population(population_size) the live collection holds exactly
\* population_size organisms, whatever positions were drawn.
C26_ExactlyRequested ==
    arena.tick = 0 /\ arena.requested > 0 => Len(arena.organisms) = arena.requested

\* C27: under a driver that keeps stepping with a fixed generation target the
\* simulation eventually is ended, whatever the random draws: the population dies
\* out or an organism of the target generation appears.
C27_EventuallyEnded == <>simulation_ended

\* A driven run that ended because the generation target was reached by organisms
\* still alive, after the founders had died of old age.
C27_EndedByGeneration ==
    /\ simulation_ended
    /\ bacteria_population # <<>>
    /\ current_max_generation >= max_generations
    /\ current_tick > 100

\* C28: no organism reproduces in the tick in which it was born, and two successive
\* reproductions of one organism are at least 5 ticks apart: every reproduction_rate is
\* at least 0.5, so the interval is int(reproduction_rate * 10), between 5 and 40, and
\* the floor of max(1, ...) never applies.  In a step the newborn are exactly two per
\* older organism that reproduced, and each of those last reproduced 5 ticks ago or
\* earlier.
C28_ReproductionSpacing ==
    [][current_tick' = current_tick + 1 =>
           LET after == pre_cap'
               reproduced(b) == b.age >= 1 /\ b.last_reproduction = current_tick'
               Alike(g, b) ==
                   [g EXCEPT !.age = @ + 1, !.last_reproduction = 0, !.count = 0]
                       = [b EXCEPT !.last_reproduction = 0, !.count = 0]
           IN  /\ \A b \in Organisms(after) :
                      /\ b.reproduction_rate >= MinReproductionRate
                      /\ reproduction_interval(b.reproduction_rate)
                             = (b.reproduction_rate * 10) \div 1000
                      /\ reproduction_interval(b.reproduction_rate) \in 5..40
                      /\ b.age = 0 => b.last_reproduction = current_tick'
                      /\ reproduced(b) =>
                             \E g \in Organisms(bacteria_population) :
                                 /\ Alike(g, b)
                                 /\ current_tick' - g.last_reproduction >= 5
                                 /\ current_tick' - g.last_reproduction
                                        >= reproduction_interval(g.reproduction_rate)
               /\ Size(SelectSeq(after, LAMBDA b : b.age = 0))
                      = 2 * Size(SelectSeq(after, LAMBDA b : reproduced(b)))]_vars

\* An organism born during the run that has reproduced since, in a list that also holds
\* organisms born in the last step.
C28_ChildReproduced ==
    /\ current_tick > 0
    /\ \E b \in Organisms(bacteria_population) :
           /\ b.generation >= 1
           /\ b.age >= 5
           /\ b.last_reproduction = current_tick
    /\ \E b \in Organisms(bacteria_population) : b.age = 0

\* C29: in the tkinter program, whatever the order of Start/Pause presses, Reset
\* presses and timer firings, at most one run_simulation callback is pending in
\* root.after, so that no two timer chains step the simulation; and after Pause or
\* Reset no step is executed until Start is pressed again (a Start press whose step
\* ends the simulation leaves is_running false and sets simulation_ended).
C29_OnePending ==
    /\ [](timers <= 1)
    /\ [][/\ app = "tkinter"
          /\ ~is_running /\ ~is_running'
          /\ simulation_ended' = simulation_ended
          => current_tick' \in {current_tick, 0}]_vars

====
